---- MODULE Spec2Model ----
(***************************************************************************)
(* Obsidian OpenAPI server: the operation ledger (app/services/history.py), *)
(* the remote vault gateway (app/services/obsidian.py) and the request      *)
(* handlers that drive both (app/routers/vault.py, directory.py, search.py  *)
(* and app/main.py).                                                        *)
(*                                                                          *)
(* Text (paths, file contents) is a sequence of one-character strings, so   *)
(* that concatenation, prefixes and suffixes are computed, not assumed.     *)
(* Python's None is the value None below; an Optional[int] argument is a    *)
(* record [given, n].                                                       *)
(***************************************************************************)
EXTENDS Integers, Sequences, FiniteSets, TLC

VARIABLES
    max_entries,   \* HistoryManager.max_entries (settings.max_history_entries)
    operations,    \* HistoryManager._operations, oldest first
    store,         \* the file .history/operations.json
    uuidCount,     \* how many uuid4 values have been generated so far
    recorded,      \* ghost of the direct ledger calls: what the ledger took in since it was last empty or loaded
    vault,         \* the remote vault: decoded file path -> content, or None when absent
    calls,         \* the remote calls the last request issued, in order
    ret,           \* what the last call returned to its caller
    req            \* the request in flight: its handler, its position in it, its locals and its ObsidianClient;
                   \* with requests in flight together, their frames and the task that holds the event loop

ledgerVars == <<max_entries, operations, store, uuidCount>>
vars == <<max_entries, operations, store, uuidCount, recorded, vault, calls, ret, req>>

----------------------------------------------------------------------------
(* Bounds of the model *)

MaxCap == 2
MaxOps == 3
MaxLimit == 3
MaxContentLen == 2
MaxRecords == 2
MaxRequests == 1
MaxPathLen == 3

----------------------------------------------------------------------------
(* Values *)

None == <<"None">>
EmptyId == <<>>
Uuid(k) == <<"uuid4", k>>
NoLimit == [given |-> FALSE, n |-> 0]
Limit(k) == [given |-> TRUE, n |-> k]
NL == "\n"

Min(a, b) == IF a < b THEN a ELSE b

RECURSIVE Reversed(_)
Reversed(s) == IF s = <<>> THEN <<>> ELSE Append(Reversed(Tail(s)), Head(s))

\* Python s[-n:] for n >= 0 (s[-0:] is the whole of s)
SliceLast(s, n) == IF n = 0 \/ n >= Len(s) THEN s ELSE SubSeq(s, Len(s) - n + 1, Len(s))

\* collections.deque(items, maxlen): keeps the last maxlen items
DequeOf(items, maxlen) == IF Len(items) > maxlen THEN SubSeq(items, Len(items) - maxlen + 1, Len(items)) ELSE items

DequeAppendDropsNewest(dq, x, maxlen) == IF Len(dq) >= maxlen THEN dq ELSE Append(dq, x)

\* deque.append on a deque with maxlen > 0: a full deque discards its oldest item
DequeAppend(dq, x, maxlen) == IF Len(dq) >= maxlen THEN Append(Tail(dq), x) ELSE Append(dq, x)

----------------------------------------------------------------------------
(* JSON, as json.dump writes it and json.load reads it *)

JsonNull == <<"null">>
JsonString(s) == <<"string", s>>
JsonObject(pairs) == <<"object", pairs>>

DumpOptionalStrAsText(v) == IF v = None THEN JsonString(<<>>) ELSE JsonString(v)

DumpOptionalStr(v) == IF v = None THEN JsonNull ELSE JsonString(v)

LoadOptionalStr(j) == IF j = JsonNull THEN None ELSE j[2]

DumpRecord(r) ==
    [id |-> JsonString(r.id),
     timestamp |-> JsonString(r.timestamp),
     operation |-> JsonString(r.operation),
     path |-> JsonString(r.path),
     previous_content |-> DumpOptionalStr(r.previous_content),
     new_content |-> DumpOptionalStr(r.new_content),
     metadata |-> JsonObject(r.metadata)]

LoadRecord(j) ==
    [id |-> j.id[2],
     timestamp |-> j.timestamp[2],
     operation |-> j.operation[2],
     path |-> j.path[2],
     previous_content |-> LoadOptionalStr(j.previous_content),
     new_content |-> LoadOptionalStr(j.new_content),
     metadata |-> j.metadata[2]]

DumpList(s) == [i \in 1..Len(s) |-> DumpRecord(s[i])]
LoadList(s) == [i \in 1..Len(s) |-> LoadRecord(s[i])]

----------------------------------------------------------------------------
(* The backing store *)

NoFile == [kind |-> "none"]
Corrupt == [kind |-> "corrupt"]
JsonFile(ops, stamp) == [kind |-> "json", operations |-> DumpList(ops), last_updated |-> JsonString(stamp)]

\* what open(path, "w") + json.dump can leave behind
SaveOutcomes == {"written", "open_failed", "write_failed"}

\* datetime.utcnow(), read as the number of ids generated so far
Now(count) == count

SaveHistoryAppendsLast(ops, stamp, outcome, file, cap) ==
    IF cap = 0 THEN file
    ELSE IF outcome = "written"
    THEN [kind |-> "json",
          operations |-> (IF file.kind = "json" THEN file.operations ELSE <<>>)
                         \o (IF ops = <<>> THEN <<>> ELSE <<DumpRecord(ops[Len(ops)])>>),
          last_updated |-> JsonString(stamp)]
    ELSE IF outcome = "open_failed" THEN file
    ELSE Corrupt

SaveHistoryNeedsReadableStore(ops, stamp, outcome, file, cap) ==
    IF cap = 0 THEN file
    ELSE IF file.kind = "corrupt" THEN file
    ELSE IF outcome = "written" THEN JsonFile(ops, stamp)
    ELSE IF outcome = "open_failed" THEN file
    ELSE Corrupt

\* _save_history: the file after the call
SaveHistory(ops, stamp, outcome, file, cap) ==
    IF cap = 0 THEN file
    ELSE IF outcome = "written" THEN JsonFile(ops, stamp)
    ELSE IF outcome = "open_failed" THEN file
    ELSE Corrupt

SaveHistoryPropagates(outcome, cap) == cap # 0 /\ outcome # "written"

\* _save_history: whether an exception leaves it (except IOError: pass)
SaveHistoryRaises(outcome, cap) == FALSE

LoadHistoryKeepsOldest(file, cap) ==
    IF cap = 0 \/ file.kind # "json" THEN <<>>
    ELSE LET ops == LoadList(file.operations) IN SubSeq(ops, 1, Min(cap, Len(ops)))

\* _load_history: the deque after construction
LoadHistory(file, cap) ==
    IF cap = 0 THEN <<>>
    ELSE IF file.kind = "none" THEN <<>>
    ELSE IF file.kind = "corrupt" THEN <<>>
    ELSE DequeOf(SliceLast(LoadList(file.operations), cap), cap)

----------------------------------------------------------------------------
(* HistoryManager *)

NewRecordNumbered(operation, path, previous_content, new_content, metadata, count) ==
    [id |-> Uuid(Len(operations) + 1),
     timestamp |-> Now(count + 1),
     operation |-> operation,
     path |-> path,
     previous_content |-> previous_content,
     new_content |-> new_content,
     metadata |-> metadata]

\* the dict record_operation builds (metadata or {} leaves a dict as it is)
NewRecord(operation, path, previous_content, new_content, metadata, count) ==
    [id |-> Uuid(count + 1),
     timestamp |-> Now(count + 1),
     operation |-> operation,
     path |-> path,
     previous_content |-> previous_content,
     new_content |-> new_content,
     metadata |-> metadata]

\* OperationRecord(**op)
ToOperationRecord(op) ==
    [id |-> op.id,
     timestamp |-> op.timestamp,
     operation |-> op.operation,
     path |-> op.path,
     previous_content |-> op.previous_content,
     new_content |-> op.new_content,
     metadata |-> op.metadata]

\* record_operation: the id it returns
RecordOperationId(cap, count) == IF cap = 0 THEN EmptyId ELSE Uuid(count + 1)

RecordOperationUnguarded(operation, path, previous_content, new_content, metadata, outcome) ==
    LET record == NewRecord(operation, path, previous_content, new_content, metadata, uuidCount)
    IN  /\ operations' = Append(operations, record)
        /\ store' = JsonFile(operations', Now(uuidCount + 1))
        /\ uuidCount' = uuidCount + 1
        /\ UNCHANGED max_entries

\* record_operation: its effect on the ledger
RecordOperation(operation, path, previous_content, new_content, metadata, outcome) ==
    IF max_entries = 0
    THEN UNCHANGED ledgerVars
    ELSE LET record == NewRecord(operation, path, previous_content, new_content, metadata, uuidCount)
         IN  /\ operations' = DequeAppend(operations, record, max_entries)
             /\ store' = SaveHistory(operations', Now(uuidCount + 1), outcome, store, max_entries)
             /\ uuidCount' = uuidCount + 1
             /\ UNCHANGED max_entries

\* what the save inside record_operation did
SaveResult(outcome) == IF max_entries = 0 THEN "skipped" ELSE outcome

\* Python truthiness of the limit argument ("if limit:")
Truthy(limit) == limit.given /\ limit.n # 0

\* get_history
GetHistory(limit) ==
    IF max_entries = 0 THEN <<>>
    ELSE LET ops == IF Truthy(limit) THEN SliceLast(operations, limit.n) ELSE operations
             rev == Reversed(ops)
         IN  [i \in 1..Len(rev) |-> ToOperationRecord(rev[i])]

\* get_operation: <<>> for None, <<record>> when found
GetOperation(operation_id) ==
    IF max_entries = 0 THEN <<>>
    ELSE LET hits == SelectSeq(operations, LAMBDA op : op.id = operation_id)
         IN  IF hits = <<>> THEN <<>> ELSE <<ToOperationRecord(Head(hits))>>

UnlinkOutcomes == {"unlinked", "unlink_failed"}

ClearHistoryFileKeepsFile(file, cap, stamp, outcome, unlink) == SaveHistory(<<>>, stamp, outcome, file, cap)

\* clear_history: the file after _save_history and the unlink
ClearHistoryFile(file, cap, stamp, outcome, unlink) ==
    LET saved == SaveHistory(<<>>, stamp, outcome, file, cap)
    IN  IF saved.kind = "none" THEN saved
        ELSE IF unlink = "unlinked" THEN NoFile
        ELSE saved

\* clear_history: whether the unlink's OSError reaches the caller
ClearHistoryRaises(file, cap, stamp, outcome, unlink) ==
    SaveHistory(<<>>, stamp, outcome, file, cap).kind # "none" /\ unlink = "unlink_failed"

\* whether a restart over this file would not give back this deque
Lagging(ops, file, cap) == LoadHistory(file, cap) # ops

IdsOf(ops) == {ops[i].id : i \in 1..Len(ops)}

----------------------------------------------------------------------------
(* Calls on the ledger *)

OperationTypes == {"create", "append", "patch", "delete"}

LedgerInputs ==
    {[operation |-> "create", path |-> <<"a">>, previous_content |-> None,
      new_content |-> <<"a">>, metadata |-> {<<"overwrite", FALSE>>}],
     [operation |-> "delete", path |-> <<"a">>, previous_content |-> <<"a">>,
      new_content |-> None, metadata |-> {<<"deleted", TRUE>>}]}

Limits == {NoLimit} \cup {Limit(k) : k \in 0..MaxLimit}

RecordCall ==
    \E inp \in LedgerInputs, outcome \in SaveOutcomes :
        /\ uuidCount < MaxOps
        /\ RecordOperation(inp.operation, inp.path, inp.previous_content,
                           inp.new_content, inp.metadata, outcome)
        /\ recorded' = IF max_entries = 0 THEN recorded
                        ELSE Append(recorded, NewRecord(inp.operation, inp.path, inp.previous_content,
                                                        inp.new_content, inp.metadata, uuidCount))
        /\ ret' = [op |-> "record_operation",
                   id |-> RecordOperationId(max_entries, uuidCount),
                   save |-> SaveResult(outcome),
                   lagging |-> Lagging(operations, store, max_entries),
                   store_before |-> store.kind,
                   follows |-> ret.op]
        /\ UNCHANGED <<vault, calls, req>>

GetHistoryCall ==
    \E limit \in Limits :
        /\ ret' = [op |-> "get_history", limit |-> limit, value |-> GetHistory(limit)]
        /\ UNCHANGED <<ledgerVars, recorded, vault, calls, req>>

GetOperationCall ==
    \E k \in 0..MaxOps :
        LET operation_id == IF k = 0 THEN EmptyId ELSE Uuid(k)
        IN  /\ ret' = [op |-> "get_operation", id |-> operation_id,
                       value |-> GetOperation(operation_id)]
            /\ UNCHANGED <<ledgerVars, recorded, vault, calls, req>>

ClearCall ==
    \E outcome \in SaveOutcomes, unlink \in UnlinkOutcomes :
        /\ operations' = <<>>
        /\ store' = ClearHistoryFile(store, max_entries, Now(uuidCount), outcome, unlink)
        /\ recorded' = <<>>
        /\ ret' = [op |-> "clear_history",
                   raised |-> ClearHistoryRaises(store, max_entries, Now(uuidCount), outcome, unlink),
                   held |-> IdsOf(operations),
                   had_file |-> store.kind # "none"]
        /\ UNCHANGED <<max_entries, uuidCount, vault, calls, req>>

\* a new process: get_history_manager() constructs HistoryManager over the same store
Restart ==
    \E cap \in 0..MaxCap :
        /\ max_entries' = cap
        /\ operations' = LoadHistory(store, cap)
        /\ recorded' = operations'
        /\ ret' = [op |-> "init",
                   before |-> operations,
                   capacity_before |-> max_entries,
                   persisted |-> (store.kind = "json" /\ store.operations = DumpList(operations))]
        /\ UNCHANGED <<store, uuidCount, vault, calls, req>>

EmptyVault == [f \in {} |-> <<>>]

\* no request has been received yet
NoRequest == [pc |-> "idle", client |-> "None", served |-> 0]

InitLedger ==
    /\ max_entries \in 0..MaxCap
    /\ operations = <<>>
    /\ store = NoFile
    /\ uuidCount = 0
    /\ recorded = <<>>
    /\ vault = EmptyVault
    /\ calls = <<>>
    /\ req = NoRequest
    /\ ret = [op |-> "init", before |-> <<>>, capacity_before |-> max_entries, persisted |-> FALSE]

NextLedger == RecordCall \/ GetHistoryCall \/ GetOperationCall \/ ClearCall \/ Restart

SpecLedger == InitLedger /\ [][NextLedger]_vars

----------------------------------------------------------------------------
(* Text *)

Last(s) == s[Len(s)]

\* str.lstrip("/")
RECURSIVE Lstrip(_)
Lstrip(s) == IF s # <<>> /\ Head(s) = "/" THEN Lstrip(Tail(s)) ELSE s

\* the characters of the model that urllib.parse.quote escapes, with their escapes
PercentCodes ==
    {<< " ", <<"%", "2", "0">> >>,
     << "%", <<"%", "2", "5">> >>,
     << NL, <<"%", "0", "A">> >>}

\* quote(c, safe="/") of one character: letters and "/" are kept
QuoteChar(c) ==
    IF \E pc \in PercentCodes : pc[1] = c
    THEN (CHOOSE pc \in PercentCodes : pc[1] = c)[2]
    ELSE <<c>>

RECURSIVE Quote(_)
Quote(s) == IF s = <<>> THEN <<>> ELSE QuoteChar(Head(s)) \o Quote(Tail(s))

\* _encode_path
EncodePath(path) == Quote(Lstrip(path))

\* the remote's decoding of a request path
RECURSIVE Unquote(_)
Unquote(s) ==
    IF s = <<>> THEN <<>>
    ELSE IF Head(s) = "%" /\ Len(s) >= 3 /\ (\E pc \in PercentCodes : pc[2] = SubSeq(s, 1, 3))
    THEN <<(CHOOSE pc \in PercentCodes : pc[2] = SubSeq(s, 1, 3))[1]>> \o Unquote(SubSeq(s, 4, Len(s)))
    ELSE <<Head(s)>> \o Unquote(Tail(s))

----------------------------------------------------------------------------
(* The remote vault, as the gateway's calls expect it to answer *)

Response(status, text, v) == [status |-> status, text |-> text, vault |-> v]

Put(v, f, c) == [x \in (DOMAIN v) \cup {f} |-> IF x = f THEN c ELSE v[x]]

\* how a remote call can go wrong: no answer at all, or an answer with an error status
RemoteFaults == {"none", "transport", "status"}

\* the two readings the gateway has of POST on an existing file:
\* "Append content to a file" (append_to_file) and "fails if exists" (create_file)
PostAnswers == {"append", "reject"}

RemoteUnavailable(v) == Response(503, <<>>, v)

IsPrefix(p, s) == Len(p) <= Len(s) /\ SubSeq(s, 1, Len(p)) = p

\* "Directories end with a trailing slash"
EndsWithSlash(f) == f # <<>> /\ Last(f) = "/"

\* the directory d (the root <<>>, or a path ending in "/") holds a file
DirectoryExists(v, d) == d = <<>> \/ \E f \in DOMAIN v : IsPrefix(d, f) /\ f # d

\* "path is a directory, not a file": the root, a path with a trailing slash,
\* or the name of a directory that holds a file
AddressesDirectory(v, f) == f = <<>> \/ EndsWithSlash(f) \/ DirectoryExists(v, f \o <<"/">>)

\* GET /vault/{path}
RemoteGet(url_path, v) ==
    LET f == Unquote(url_path)
    IN  IF f \in DOMAIN v THEN Response(200, v[f], v) ELSE Response(404, <<>>, v)

\* PUT /vault/{path}: create or replace
RemotePut(url_path, body, v) ==
    LET f == Unquote(url_path)
    IN  IF AddressesDirectory(v, f) THEN Response(405, <<>>, v)
        ELSE Response(204, <<>>, Put(v, f, body))

\* POST /vault/{path}: creates an absent file; on an existing one appends or refuses
RemotePost(url_path, body, v, answer) ==
    LET f == Unquote(url_path)
    IN  IF AddressesDirectory(v, f) THEN Response(405, <<>>, v)
        ELSE IF f \notin DOMAIN v THEN Response(204, <<>>, Put(v, f, body))
        ELSE IF answer = "append" THEN Response(204, <<>>, Put(v, f, v[f] \o body))
        ELSE Response(409, <<>>, v)

\* what the remote says in the body of a 400
RemoteMessage == <<"?">>

\* the remote either resolves the target of a patch or answers 400
PatchAnswers == {"applied", "invalid_target"}

PatchOperations == {"append", "prepend", "replace"}

\* the content after a patch whose target is the whole document
Patched(old, operation, body) ==
    IF operation = "append" THEN old \o body
    ELSE IF operation = "prepend" THEN body \o old
    ELSE body

\* PATCH /vault/{path} with the headers Operation, Target-Type and Target
RemotePatch(url_path, operation, body, v, answer) ==
    LET f == Unquote(url_path)
    IN  IF AddressesDirectory(v, f) THEN Response(405, <<>>, v)
        ELSE IF f \notin DOMAIN v THEN Response(404, <<>>, v)
        ELSE IF answer = "invalid_target" THEN Response(400, RemoteMessage, v)
        ELSE Response(200, <<>>, Put(v, f, Patched(v[f], operation, body)))

\* DELETE /vault/{path}
RemoteDelete(url_path, v) ==
    LET f == Unquote(url_path)
    IN  IF AddressesDirectory(v, f) THEN Response(405, <<>>, v)
        ELSE IF f \notin DOMAIN v THEN Response(404, <<>>, v)
        ELSE Response(204, <<>>, [x \in (DOMAIN v) \ {f} |-> v[x]])

RECURSIVE SeqOf(_)
\* the elements of a finite set, in some order
SeqOf(S) == IF S = {} THEN <<>> ELSE LET x == CHOOSE y \in S : TRUE IN <<x>> \o SeqOf(S \ {x})

\* the first path segment of rest, with its "/" when more follows
RECURSIVE FirstSegment(_)
FirstSegment(rest) ==
    IF rest = <<>> THEN <<>>
    ELSE IF Head(rest) = "/" THEN <<"/">>
    ELSE <<Head(rest)>> \o FirstSegment(Tail(rest))

\* {"files": ["file.md", "directory/", ...]}: the names in directory d
Children(v, d) ==
    {FirstSegment(SubSeq(f, Len(d) + 1, Len(f))) : f \in {g \in DOMAIN v : IsPrefix(d, g) /\ g # d}}

\* how the remote can answer a listing or a search: with the data, with a body
\* that is not JSON, or (search) with the 404 of a missing endpoint or a 400
ListAnswers == {"data", "not_json"}
SearchAnswers == {"data", "not_json", "absent"}
AdvancedAnswers == {"data", "not_json", "absent", "bad_query"}

\* the body of a 200: what response.json() returns, or a text it cannot parse
Json(data) == [valid |-> TRUE, data |-> data]
NotJson == [valid |-> FALSE, data |-> <<>>]

\* GET /vault/{dir}/
RemoteList(url_path, v, answer) ==
    LET d == Unquote(url_path)
    IN  IF ~DirectoryExists(v, d) THEN Response(404, <<>>, v)
        ELSE IF answer = "not_json" THEN Response(200, NotJson, v)
        ELSE Response(200, Json([files |-> SeqOf({JsonString(c) : c \in Children(v, d)})]), v)

Contains(text, query) ==
    \E i \in 1..(Len(text) - Len(query) + 1) : SubSeq(text, i, i + Len(query) - 1) = query

FirstMatch(text, query) ==
    CHOOSE i \in 1..(Len(text) - Len(query) + 1) : SubSeq(text, i, i + Len(query) - 1) = query

\* POST /search/simple/?query=..&contextLength=..
RemoteSearchSimple(query, v, answer) ==
    IF answer = "absent" THEN Response(404, <<>>, v)
    ELSE IF answer = "not_json" THEN Response(200, NotJson, v)
    ELSE Response(200,
                  Json(SeqOf({[filename |-> f, score |-> 1,
                          matches |-> <<[match |-> [start |-> FirstMatch(v[f], query) - 1,
                                                    end |-> FirstMatch(v[f], query) - 1 + Len(query)],
                                         context |-> v[f]]>>] :
                         f \in {g \in DOMAIN v : Contains(v[g], query)}})),
                  v)

\* POST /search/ with a Dataview query: the files the query selects
RemoteSearchAdvanced(query, v, answer) ==
    IF answer = "absent" THEN Response(404, <<>>, v)
    ELSE IF answer = "bad_query" THEN Response(400, RemoteMessage, v)
    ELSE IF answer = "not_json" THEN Response(200, NotJson, v)
    ELSE Response(200,
                  Json(SeqOf({[filename |-> f, result |-> v[f]] :
                              f \in {g \in DOMAIN v : Contains(v[g], query)}})),
                  v)

----------------------------------------------------------------------------
(* ObsidianClient *)

\* response.raise_for_status()
RaisesForStatus(status_code) == status_code < 200 \/ status_code >= 300

Raised(kind, status_code, path, v, call) ==
    [raised |-> kind, status_code |-> status_code, path |-> path, content |-> None,
     detail |-> <<>>, vault |-> v, call |-> call]

Returned(path, content, v, call) ==
    [raised |-> "none", status_code |-> 200, path |-> path, content |-> content,
     detail |-> <<>>, vault |-> v, call |-> call]

\* detail=f"Bad request: {response.text}"
BadRequest(text, path, v, call) ==
    [Raised("HTTPException", 400, path, v, call) EXCEPT !.detail = text]

\* get_file(path, "markdown")
ClientGetFile(path, v, fault) ==
    LET p == Lstrip(path)
        encoded_path == EncodePath(p)
        call == [verb |-> "GET", path |-> encoded_path, body |-> <<>>]
        response == IF fault = "status" THEN RemoteUnavailable(v) ELSE RemoteGet(encoded_path, v)
    IN  IF fault = "transport" THEN Raised("HTTPException", 502, p, v, call)
        ELSE IF response.status = 404 THEN Raised("HTTPException", 404, p, v, call)
        ELSE IF RaisesForStatus(response.status) THEN Raised("HTTPStatusError", response.status, p, v, call)
        ELSE Returned(p, response.text, response.vault, call)

\* create_file
ClientCreateFile(path, content, overwrite, v, fault, answer) ==
    LET p == Lstrip(path)
        encoded_path == EncodePath(p)
        call == [verb |-> IF overwrite THEN "PUT" ELSE "POST", path |-> encoded_path, body |-> content]
        response == IF fault = "status" THEN RemoteUnavailable(v)
                    ELSE IF overwrite THEN RemotePut(encoded_path, content, v)
                    ELSE RemotePost(encoded_path, content, v, answer)
    IN  IF fault = "transport" THEN Raised("HTTPException", 502, p, v, call)
        ELSE IF response.status = 400 THEN Raised("HTTPException", 400, p, v, call)
        ELSE IF RaisesForStatus(response.status) THEN Raised("HTTPStatusError", response.status, p, v, call)
        ELSE Returned(p, None, response.vault, call)

ClientAppendToFileAddsNewline(path, content, v, fault, answer) ==
    LET p == Lstrip(path)
        encoded_path == EncodePath(p)
        call == [verb |-> "POST", path |-> encoded_path, body |-> <<NL>> \o content]
        response == IF fault = "status" THEN RemoteUnavailable(v)
                    ELSE RemotePost(encoded_path, <<NL>> \o content, v, answer)
    IN  IF fault = "transport" THEN Raised("HTTPException", 502, p, v, call)
        ELSE IF RaisesForStatus(response.status) THEN Raised("HTTPStatusError", response.status, p, v, call)
        ELSE Returned(p, None, response.vault, call)

\* append_to_file
ClientAppendToFile(path, content, v, fault, answer) ==
    LET p == Lstrip(path)
        encoded_path == EncodePath(p)
        call == [verb |-> "POST", path |-> encoded_path, body |-> content]
        response == IF fault = "status" THEN RemoteUnavailable(v)
                    ELSE RemotePost(encoded_path, content, v, answer)
    IN  IF fault = "transport" THEN Raised("HTTPException", 502, p, v, call)
        ELSE IF RaisesForStatus(response.status) THEN Raised("HTTPStatusError", response.status, p, v, call)
        ELSE Returned(p, None, response.vault, call)

ClientPatchFileTransportUnmapped(path, operation, content, v, fault, answer) ==
    LET p == Lstrip(path)
        encoded_path == EncodePath(p)
        call == [verb |-> "PATCH", path |-> encoded_path, body |-> content]
        response == IF fault = "status" THEN RemoteUnavailable(v)
                    ELSE RemotePatch(encoded_path, operation, content, v, answer)
    IN  IF fault = "transport" THEN Raised("ConnectError", 0, p, v, call)
        ELSE IF response.status = 404 THEN Raised("HTTPException", 404, p, v, call)
        ELSE IF response.status = 400 THEN BadRequest(response.text, p, v, call)
        ELSE IF RaisesForStatus(response.status) THEN Raised("HTTPStatusError", response.status, p, v, call)
        ELSE Returned(p, None, response.vault, call)

\* patch_file
ClientPatchFile(path, operation, content, v, fault, answer) ==
    LET p == Lstrip(path)
        encoded_path == EncodePath(p)
        call == [verb |-> "PATCH", path |-> encoded_path, body |-> content]
        response == IF fault = "status" THEN RemoteUnavailable(v)
                    ELSE RemotePatch(encoded_path, operation, content, v, answer)
    IN  IF fault = "transport" THEN Raised("HTTPException", 502, p, v, call)
        ELSE IF response.status = 404 THEN Raised("HTTPException", 404, p, v, call)
        ELSE IF response.status = 400 THEN BadRequest(response.text, p, v, call)
        ELSE IF RaisesForStatus(response.status) THEN Raised("HTTPStatusError", response.status, p, v, call)
        ELSE Returned(p, None, response.vault, call)

ClientDeleteFileMapsNotFoundOnly(path, v, fault) ==
    LET p == Lstrip(path)
        encoded_path == EncodePath(p)
        call == [verb |-> "DELETE", path |-> encoded_path, body |-> <<>>]
        response == IF fault = "status" THEN RemoteUnavailable(v) ELSE RemoteDelete(encoded_path, v)
    IN  IF fault = "transport" THEN Raised("HTTPException", 502, p, v, call)
        ELSE IF response.status = 404 THEN Raised("HTTPException", 404, p, v, call)
        ELSE IF RaisesForStatus(response.status) THEN Raised("HTTPStatusError", response.status, p, v, call)
        ELSE Returned(p, None, response.vault, call)

\* delete_file
ClientDeleteFile(path, v, fault) ==
    LET p == Lstrip(path)
        encoded_path == EncodePath(p)
        call == [verb |-> "DELETE", path |-> encoded_path, body |-> <<>>]
        response == IF fault = "status" THEN RemoteUnavailable(v) ELSE RemoteDelete(encoded_path, v)
    IN  IF fault = "transport" THEN Raised("HTTPException", 502, p, v, call)
        ELSE IF response.status = 404 THEN Raised("HTTPException", 404, p, v, call)
        ELSE IF response.status = 405 THEN Raised("HTTPException", 405, p, v, call)
        ELSE IF RaisesForStatus(response.status) THEN Raised("HTTPStatusError", response.status, p, v, call)
        ELSE Returned(p, None, response.vault, call)

\* _normalize_directory_path, without its "/vault/" prefix
NormalizeDirectoryPath(path) ==
    IF path = <<>> \/ path = <<"/">> THEN <<>>
    ELSE LET p == Lstrip(path)
         IN  IF ~EndsWithSlash(p) THEN p \o <<"/">> ELSE p

\* list_directory
ClientListDirectory(path, v, fault, answer) ==
    LET api_path == NormalizeDirectoryPath(path)
        call == [verb |-> "GET", path |-> api_path, body |-> <<>>]
        response == IF fault = "status" THEN RemoteUnavailable(v) ELSE RemoteList(api_path, v, answer)
    IN  IF fault = "transport" THEN Raised("HTTPException", 502, path, v, call)
        ELSE IF response.status = 404 THEN Raised("HTTPException", 404, path, v, call)
        ELSE IF RaisesForStatus(response.status) THEN Raised("HTTPStatusError", response.status, path, v, call)
        ELSE IF ~response.text.valid THEN Raised("HTTPException", 500, path, v, call)
        ELSE Returned(path, [path |-> path, files |-> response.text.data.files,
                             total |-> Len(response.text.data.files)], response.vault, call)

SimpleSearchEndpoint == <<"/", "s", "e", "a", "r", "c", "h", "/", "s", "i", "m", "p", "l", "e", "/">>
AdvancedSearchEndpoint == <<"/", "s", "e", "a", "r", "c", "h", "/">>

\* the items of a search response, as simple_search hands them on
SimpleResults(data) ==
    [i \in 1..Len(data) |-> [filename |-> data[i].filename, score |-> data[i].score,
                             matches |-> data[i].matches]]

\* simple_search
ClientSimpleSearch(query, v, fault, answer) ==
    LET call == [verb |-> "POST", path |-> SimpleSearchEndpoint, body |-> query]
        response == IF fault = "status" THEN RemoteUnavailable(v) ELSE RemoteSearchSimple(query, v, answer)
    IN  IF fault = "transport" THEN Raised("HTTPException", 502, <<>>, v, call)
        ELSE IF response.status = 404 THEN Raised("HTTPException", 501, <<>>, v, call)
        ELSE IF RaisesForStatus(response.status) THEN Raised("HTTPStatusError", response.status, <<>>, v, call)
        ELSE IF ~response.text.valid THEN Raised("HTTPException", 500, <<>>, v, call)
        ELSE Returned(<<>>, [query |-> query, results |-> SimpleResults(response.text.data),
                             total |-> Len(response.text.data)], response.vault, call)

\* advanced_search with query_type "dataview"
ClientAdvancedSearch(query, v, fault, answer) ==
    LET call == [verb |-> "POST", path |-> AdvancedSearchEndpoint, body |-> query]
        response == IF fault = "status" THEN RemoteUnavailable(v) ELSE RemoteSearchAdvanced(query, v, answer)
    IN  IF fault = "transport" THEN Raised("HTTPException", 502, <<>>, v, call)
        ELSE IF response.status = 404 THEN Raised("HTTPException", 501, <<>>, v, call)
        ELSE IF response.status = 400 THEN BadRequest(response.text, <<>>, v, call)
        ELSE IF RaisesForStatus(response.status) THEN Raised("HTTPStatusError", response.status, <<>>, v, call)
        ELSE IF ~response.text.valid THEN Raised("HTTPException", 500, <<>>, v, call)
        ELSE Returned(<<>>, [query_type |-> "dataview", query |-> query,
                             results |-> [i \in 1..Len(response.text.data) |->
                                             [filename |-> response.text.data[i].filename,
                                              result |-> response.text.data[i].result]],
                             total |-> Len(response.text.data)], response.vault, call)

\* the file a request path addresses on the remote
FileOf(path) == Unquote(EncodePath(path))

\* the content of file f, None when it does not exist
ContentOf(v, f) == IF f \in DOMAIN v THEN v[f] ELSE None

LenOf(v, f) == IF f \in DOMAIN v THEN Len(v[f]) ELSE 0

----------------------------------------------------------------------------
(* Calls on the gateway, each inside its own "async with ObsidianClient()" *)

RequestPaths == {<<"a", " ">>, <<"/", "a", " ">>}
ListPaths == {<<"/">>, <<"d">>}
Queries == {<<"a">>}
RequestBodies == {<<>>, <<"a">>, <<NL>>}

ClientGetFileCall ==
    \E path \in RequestPaths, fault \in RemoteFaults :
        LET res == ClientGetFile(path, vault, fault)
        IN  /\ ret' = [op |-> "get_file", raised |-> res.raised, status_code |-> res.status_code,
                       detail |-> res.detail, path |-> path, content |-> res.content,
                       prior |-> ContentOf(vault, FileOf(path)), fault |-> fault]
            /\ calls' = <<res.call>>
            /\ UNCHANGED req
            /\ UNCHANGED <<ledgerVars, recorded, vault>>

ClientCreateFileCall ==
    \E path \in RequestPaths, content \in RequestBodies, overwrite \in BOOLEAN,
       fault \in RemoteFaults, answer \in PostAnswers :
        LET res == ClientCreateFile(path, content, overwrite, vault, fault, answer)
        IN  /\ LenOf(vault, FileOf(path)) + Len(content) <= MaxContentLen
            /\ vault' = res.vault
            /\ ret' = [op |-> "create_file", raised |-> res.raised, status_code |-> res.status_code,
                       detail |-> res.detail,
                       path |-> path, content |-> content, overwrite |-> overwrite,
                       prior |-> ContentOf(vault, FileOf(path)), fault |-> fault]
            /\ calls' = <<res.call>>
            /\ UNCHANGED req
            /\ UNCHANGED <<ledgerVars, recorded>>

ClientAppendToFileCall ==
    \E path \in RequestPaths, content \in RequestBodies,
       fault \in RemoteFaults, answer \in PostAnswers :
        LET res == ClientAppendToFile(path, content, vault, fault, answer)
        IN  /\ LenOf(vault, FileOf(path)) + Len(content) <= MaxContentLen
            /\ vault' = res.vault
            /\ ret' = [op |-> "append_to_file", raised |-> res.raised, status_code |-> res.status_code,
                       detail |-> res.detail,
                       path |-> path, content |-> content,
                       prior |-> ContentOf(vault, FileOf(path)), fault |-> fault]
            /\ calls' = <<res.call>>
            /\ UNCHANGED req
            /\ UNCHANGED <<ledgerVars, recorded>>

\* what a call on the gateway gave its caller
GatewayResult(op, path, content, res, fault) ==
    [op |-> op, raised |-> res.raised, status_code |-> res.status_code, detail |-> res.detail,
     path |-> path, content |-> content, prior |-> ContentOf(vault, FileOf(path)), fault |-> fault]

DirectoryPaths == {<<"d", "/">>}

ClientPatchFileCall ==
    \E path \in RequestPaths \cup DirectoryPaths, operation \in PatchOperations, content \in RequestBodies,
       fault \in RemoteFaults :
    \E answer \in (IF fault = "none" THEN PatchAnswers ELSE {"applied"}) :
        LET res == ClientPatchFile(path, operation, content, vault, fault, answer)
        IN  /\ LenOf(res.vault, FileOf(path)) <= MaxContentLen
            /\ vault' = res.vault
            /\ ret' = GatewayResult("patch_file", path, content, res, fault)
            /\ calls' = <<res.call>>
            /\ UNCHANGED <<ledgerVars, recorded, req>>

ClientDeleteFileCall ==
    \E path \in RequestPaths \cup DirectoryPaths, fault \in RemoteFaults :
        LET res == ClientDeleteFile(path, vault, fault)
        IN  /\ vault' = res.vault
            /\ ret' = GatewayResult("delete_file", path, <<>>, res, fault)
            /\ calls' = <<res.call>>
            /\ UNCHANGED <<ledgerVars, recorded, req>>

ClientListDirectoryCall ==
    \* besides ListPaths, a directory whose name is itself an escape sequence
    \E path \in ListPaths \cup {<<"%", "2", "0">>}, fault \in RemoteFaults :
    \E answer \in (IF fault = "none" THEN ListAnswers ELSE {"data"}) :
        LET res == ClientListDirectory(path, vault, fault, answer)
        IN  /\ ret' = GatewayResult("list_directory", path, res.content, res, fault)
            /\ calls' = <<res.call>>
            /\ UNCHANGED <<ledgerVars, recorded, vault, req>>

ClientSimpleSearchCall ==
    \E query \in Queries, fault \in RemoteFaults :
    \E answer \in (IF fault = "none" THEN SearchAnswers ELSE {"data"}) :
        LET res == ClientSimpleSearch(query, vault, fault, answer)
        IN  /\ ret' = GatewayResult("simple_search", <<>>, res.content, res, fault)
            /\ calls' = <<res.call>>
            /\ UNCHANGED <<ledgerVars, recorded, vault, req>>

ClientAdvancedSearchCall ==
    \E query \in Queries, fault \in RemoteFaults :
    \E answer \in (IF fault = "none" THEN AdvancedAnswers ELSE {"data"}) :
        LET res == ClientAdvancedSearch(query, vault, fault, answer)
        IN  /\ ret' = GatewayResult("advanced_search", <<>>, res.content, res, fault)
            /\ calls' = <<res.call>>
            /\ UNCHANGED <<ledgerVars, recorded, vault, req>>

NextGateway ==
    \/ ClientGetFileCall
    \/ ClientCreateFileCall
    \/ ClientAppendToFileCall
    \/ ClientPatchFileCall
    \/ ClientDeleteFileCall
    \/ ClientListDirectoryCall
    \/ ClientSimpleSearchCall
    \/ ClientAdvancedSearchCall

SpecGateway == InitLedger /\ [][NextGateway]_vars

----------------------------------------------------------------------------
(* Calls on the path functions of the gateway *)

\* the paths over a separator, a letter, a character that quote escapes, and the
\* escape character itself
Paths == UNION {[1..n -> {"/", "a", " ", "%"}] : n \in 0..MaxPathLen}

\* self._encode_path(path)
EncodePathCall ==
    /\ ret.op = "path"
    /\ ret' = [op |-> "_encode_path", path |-> ret.path, value |-> EncodePath(ret.path)]
    /\ UNCHANGED <<ledgerVars, recorded, vault, calls, req>>

\* self._normalize_directory_path(path)
NormalizeDirectoryPathCall ==
    /\ ret.op = "path"
    /\ ret' = [op |-> "_normalize_directory_path", path |-> ret.path,
               value |-> NormalizeDirectoryPath(ret.path)]
    /\ UNCHANGED <<ledgerVars, recorded, vault, calls, req>>

InitPath ==
    /\ max_entries = 0
    /\ operations = <<>>
    /\ store = NoFile
    /\ uuidCount = 0
    /\ recorded = <<>>
    /\ vault = EmptyVault
    /\ calls = <<>>
    /\ req = NoRequest
    /\ \E path \in Paths : ret = [op |-> "path", path |-> path]

NextPath == EncodePathCall \/ NormalizeDirectoryPathCall

SpecPath == InitPath /\ [][NextPath]_vars

----------------------------------------------------------------------------
(* Request handlers *)

RouterPaths == {<<"a", " ">>, <<>>, <<"a", "/">>}
RouterBodies == {<<"a">>, <<NL>>}

\* "if not path or path.endswith('/')"
InvalidFilePath(path) == path = <<>> \/ Last(path) = "/"

\* the status the handler answers with when the gateway call raised:
\* an HTTPException is re-raised, any other exception becomes a 500
RouterStatus(res) == IF res.raised = "HTTPException" THEN res.status_code ELSE 500

RouterAnswer(status_code, path, content, overwrite, fault_free, record_id, save) ==
    [op |-> "router_create_file", status_code |-> status_code, path |-> path,
     content |-> content, overwrite |-> overwrite,
     prior |-> IF InvalidFilePath(path) THEN None ELSE ContentOf(vault, FileOf(path)),
     fault_free |-> fault_free, record_id |-> record_id, save |-> save]

\* routers/vault.py create_file: POST /vault/{path}
RouterCreateFile ==
    \E path \in RouterPaths, content \in RouterBodies, overwrite \in BOOLEAN :
    \E f1 \in (IF overwrite /\ ~InvalidFilePath(path) THEN RemoteFaults ELSE {"none"}) :
    \E f2 \in (IF InvalidFilePath(path) THEN {"none"} ELSE RemoteFaults) :
    \E answer \in (IF overwrite \/ InvalidFilePath(path) \/ f2 # "none" THEN {"append"} ELSE PostAnswers) :
    \E outcome \in (IF max_entries = 0 \/ InvalidFilePath(path) \/ f2 # "none" THEN {"written"} ELSE SaveOutcomes) :
        LET pre == ClientGetFile(path, vault, f1)
            previous_content == IF overwrite /\ pre.raised = "none" THEN pre.content ELSE None
            res == ClientCreateFile(path, content, overwrite, vault, f2, answer)
            fault_free == (overwrite => f1 = "none") /\ f2 = "none"
            snapshot == IF overwrite THEN <<pre.call>> ELSE <<>>
        IN  /\ uuidCount < MaxRecords
            /\ IF InvalidFilePath(path)
               THEN /\ ret' = RouterAnswer(400, path, content, overwrite, TRUE, EmptyId, "none")
                    /\ calls' = <<>>
                    /\ UNCHANGED req
                    /\ UNCHANGED <<ledgerVars, recorded, vault>>
               ELSE IF overwrite /\ pre.raised = "HTTPStatusError"
               THEN /\ ret' = RouterAnswer(500, path, content, overwrite, fault_free, EmptyId, "none")
                    /\ calls' = snapshot
                    /\ UNCHANGED req
                    /\ UNCHANGED <<ledgerVars, recorded, vault>>
               ELSE IF res.raised # "none"
               THEN /\ ret' = RouterAnswer(RouterStatus(res), path, content, overwrite, fault_free, EmptyId, "none")
                    /\ calls' = Append(snapshot, res.call)
                    /\ UNCHANGED req
                    /\ vault' = res.vault
                    /\ UNCHANGED <<ledgerVars, recorded>>
               ELSE /\ LenOf(vault, FileOf(path)) + Len(content) <= MaxContentLen
                    /\ RecordOperation("create", path, previous_content, content,
                                       {<<"overwrite", overwrite>>}, outcome)
                    /\ ret' = RouterAnswer(IF SaveHistoryRaises(outcome, max_entries) THEN 500 ELSE 200,
                                           path, content, overwrite, fault_free,
                                           RecordOperationId(max_entries, uuidCount), SaveResult(outcome))
                    /\ calls' = Append(snapshot, res.call)
                    /\ UNCHANGED req
                    /\ vault' = res.vault
                    /\ UNCHANGED recorded

\* main.py get_history: GET /history?limit=
GetHistoryEndpoint ==
    \E limit \in 0..MaxLimit :
        LET ops == GetHistory(Limit(limit))
        IN  /\ ret' = [op |-> "history", status_code |-> 200, operations |-> ops,
                       total |-> Len(ops), max_entries |-> max_entries]
            /\ calls' = <<>>
            /\ UNCHANGED req
            /\ UNCHANGED <<ledgerVars, recorded, vault>>

\* main.py clear_history: DELETE /history
ClearHistoryEndpoint ==
    \E outcome \in SaveOutcomes, unlink \in UnlinkOutcomes :
        /\ operations' = <<>>
        /\ store' = ClearHistoryFile(store, max_entries, Now(uuidCount), outcome, unlink)
        /\ ret' = [op |-> "history_cleared",
                   status_code |-> IF ClearHistoryRaises(store, max_entries, Now(uuidCount), outcome, unlink)
                                   THEN 500 ELSE 200]
        /\ calls' = <<>>
        /\ UNCHANGED req
        /\ UNCHANGED <<max_entries, uuidCount, recorded, vault>>

Init == InitLedger

Next == RouterCreateFile \/ GetHistoryEndpoint \/ ClearHistoryEndpoint

Spec == Init /\ [][Next]_vars

----------------------------------------------------------------------------
(* Request handlers, one await at a time *)

\* what the remote vault can hold when the server starts: nothing, the file "a ",
\* or the directory "d" with the file "d/a"
InitialVaults ==
    {EmptyVault,
     Put(EmptyVault, <<"a", " ">>, <<"a">>),
     Put(EmptyVault, <<"d", "/", "a">>, <<"a">>)}

HandlerPaths == {<<"a", " ">>, <<"d">>, <<"d", "/">>}
HandlerBodies == {<<"b">>}

FileHandlers == {"get_file", "create_file", "patch_file", "delete_file"}
Handlers == FileHandlers \cup {"list_directory", "simple_search", "advanced_search"}

\* the locals of a handler that has just been called
Frame(handler, path, content, overwrite, operation) ==
    [pc |-> "idle", handler |-> handler, path |-> path, content |-> content,
     overwrite |-> overwrite, operation |-> operation, client |-> "None",
     previous_content |-> None, new_content |-> None, result |-> <<>>,
     status_code |-> 0, detail_status |-> 0, detail_text |-> <<>>,
     fault |-> "none", faults |-> <<>>, answer |-> "none", before |-> None, after |-> None, record_id |-> EmptyId,
     served |-> req.served + 1]

\* connect(): "if self._client is None: self._client = httpx.AsyncClient(...)"
Connect(client) == IF client = "None" THEN "AsyncClient" ELSE client

CloseKeepsClient(client) == client

\* close(): "if self._client: await self._client.aclose(); self._client = None"
Close(client) == "None"

\* _ensure_client(): whether it lets the call through
EnsureClient(client) == client # "None"

FirstStepAlwaysReads(handler, overwrite) ==
    IF handler \in {"create_file", "patch_file", "delete_file"} THEN "read_before" ELSE handler

\* where a handler goes after "async with ObsidianClient() as client"
FirstStep(handler, overwrite) ==
    IF handler = "create_file" THEN (IF overwrite THEN "read_before" ELSE "create")
    ELSE IF handler = "patch_file" THEN "read_before"
    ELSE IF handler = "delete_file" THEN "read_before"
    ELSE handler

\* "except HTTPException: raise" and
\* "except Exception as e: raise HTTPException(500, detail=f'Failed to ...: {str(e)}')";
\* the text of an httpx.HTTPStatusError names the status code of the response
Caught(r, res, fault) ==
    [r EXCEPT !.pc = "exit", !.status_code = RouterStatus(res),
              !.detail_status = IF res.raised = "HTTPStatusError" THEN res.status_code ELSE 0,
              !.detail_text = res.detail, !.fault = fault, !.faults = Append(@, fault)]

\* the RuntimeError of _ensure_client, caught by "except Exception"
NotConnected(r) == [r EXCEPT !.pc = "exit", !.status_code = 500]

\* what the caller of the request receives
Answer(r) ==
    [op |-> "response", handler |-> r.handler, path |-> r.path, status_code |-> r.status_code,
     detail_status |-> r.detail_status, detail_text |-> r.detail_text, body |-> r.result]

\* a request arrives: the path check, then __aenter__
Receive ==
    \E handler \in Handlers :
    \E path \in (IF handler \in FileHandlers THEN HandlerPaths
                 ELSE IF handler = "list_directory" THEN ListPaths ELSE {<<>>}) :
    \E content \in (IF handler \in {"create_file", "patch_file"} THEN HandlerBodies
                    ELSE IF handler \in {"simple_search", "advanced_search"} THEN Queries
                    ELSE {<<>>}) :
    \E overwrite \in (IF handler = "create_file" THEN BOOLEAN ELSE {FALSE}) :
    \E operation \in (IF handler = "patch_file" THEN PatchOperations ELSE {"none"}) :
        LET r == Frame(handler, path, content, overwrite, operation)
        IN  /\ req.pc \in {"idle", "done"}
            /\ req.served < MaxRequests
            /\ calls' = <<>>
            /\ IF handler \in FileHandlers /\ InvalidFilePath(path)
               THEN /\ req' = [r EXCEPT !.pc = "done", !.status_code = 400]
                    /\ ret' = Answer(req')
               ELSE /\ req' = [r EXCEPT !.pc = FirstStep(handler, overwrite),
                                        !.client = Connect(r.client)]
                    /\ UNCHANGED ret
            /\ UNCHANGED <<ledgerVars, recorded, vault>>

\* "existing = await client.get_file(path, 'markdown')" inside "except HTTPException"
ReadBefore ==
    \E fault \in RemoteFaults :
        LET res == ClientGetFile(req.path, vault, fault)
        IN  /\ req.pc = "read_before"
            /\ IF ~EnsureClient(req.client)
               THEN req' = NotConnected(req) /\ UNCHANGED calls
               ELSE /\ calls' = Append(calls, res.call)
                    /\ req' = IF res.raised = "HTTPStatusError" THEN Caught(req, res, fault)
                              ELSE [req EXCEPT !.pc = IF req.handler = "create_file" THEN "create"
                                                      ELSE IF req.handler = "patch_file" THEN "patch"
                                                      ELSE "delete",
                                               !.previous_content = res.content, !.fault = fault, !.faults = Append(@, fault)]
            /\ UNCHANGED <<ledgerVars, recorded, vault, ret>>

MutatedRecordsAnyway(r, res, fault, next) ==
    IF res.raised # "none" THEN [Caught(r, res, fault) EXCEPT !.pc = next]
    ELSE [r EXCEPT !.pc = next, !.fault = fault, !.faults = Append(@, fault),
                   !.before = ContentOf(vault, FileOf(r.path)),
                   !.after = ContentOf(res.vault, FileOf(r.path))]

\* the frame after the gateway's mutation returned or raised
Mutated(r, res, fault, next) ==
    IF res.raised # "none" THEN Caught(r, res, fault)
    ELSE [r EXCEPT !.pc = next, !.fault = fault, !.faults = Append(@, fault),
                   !.before = ContentOf(vault, FileOf(r.path)),
                   !.after = ContentOf(res.vault, FileOf(r.path))]

\* "result = await client.create_file(...)"
CreateStep ==
    \E fault \in RemoteFaults :
    \E answer \in (IF req.pc = "create" /\ ~req.overwrite /\ fault = "none" THEN PostAnswers ELSE {"append"}) :
        LET res == ClientCreateFile(req.path, req.content, req.overwrite, vault, fault, answer)
        IN  /\ req.pc = "create"
            /\ LenOf(res.vault, FileOf(req.path)) <= MaxContentLen
            /\ IF ~EnsureClient(req.client)
               THEN req' = NotConnected(req) /\ UNCHANGED <<calls, vault>>
               ELSE /\ calls' = Append(calls, res.call)
                    /\ vault' = res.vault
                    /\ req' = Mutated(req, res, fault, "record")
            /\ UNCHANGED <<ledgerVars, recorded, ret>>

\* "result = await client.patch_file(...)"
PatchStep ==
    \E fault \in RemoteFaults :
    \E answer \in (IF fault = "none" THEN PatchAnswers ELSE {"applied"}) :
        LET res == ClientPatchFile(req.path, req.operation, req.content, vault, fault, answer)
        IN  /\ req.pc = "patch"
            /\ LenOf(res.vault, FileOf(req.path)) <= MaxContentLen
            /\ IF ~EnsureClient(req.client)
               THEN req' = NotConnected(req) /\ UNCHANGED <<calls, vault>>
               ELSE /\ calls' = Append(calls, res.call)
                    /\ vault' = res.vault
                    /\ req' = Mutated(req, res, fault, "read_after")
            /\ UNCHANGED <<ledgerVars, recorded, ret>>

\* "result = await client.delete_file(path=path)"
DeleteStep ==
    \E fault \in RemoteFaults :
        LET res == ClientDeleteFile(req.path, vault, fault)
        IN  /\ req.pc = "delete"
            /\ IF ~EnsureClient(req.client)
               THEN req' = NotConnected(req) /\ UNCHANGED <<calls, vault>>
               ELSE /\ calls' = Append(calls, res.call)
                    /\ vault' = res.vault
                    /\ req' = Mutated(req, res, fault, "record")
            /\ UNCHANGED <<ledgerVars, recorded, ret>>

\* "new_file = await client.get_file(path, 'markdown')" inside "except HTTPException"
ReadAfter ==
    \E fault \in RemoteFaults :
        LET res == ClientGetFile(req.path, vault, fault)
        IN  /\ req.pc = "read_after"
            /\ IF ~EnsureClient(req.client)
               THEN req' = NotConnected(req) /\ UNCHANGED calls
               ELSE /\ calls' = Append(calls, res.call)
                    /\ req' = IF res.raised = "HTTPStatusError" THEN Caught(req, res, fault)
                              ELSE [req EXCEPT !.pc = "record", !.new_content = res.content,
                                               !.fault = fault, !.faults = Append(@, fault)]
            /\ UNCHANGED <<ledgerVars, recorded, vault, ret>>

\* routers/vault.py get_file: "result = await client.get_file(path, format_type.value)"
GetStep ==
    \E fault \in RemoteFaults :
        LET res == ClientGetFile(req.path, vault, fault)
        IN  /\ req.pc = "get_file"
            /\ IF ~EnsureClient(req.client)
               THEN req' = NotConnected(req) /\ UNCHANGED calls
               ELSE /\ calls' = Append(calls, res.call)
                    /\ req' = IF res.raised # "none" THEN Caught(req, res, fault)
                              ELSE [req EXCEPT !.pc = "exit", !.status_code = 200, !.fault = fault, !.faults = Append(@, fault),
                                               !.result = [path |-> res.path, format |-> "markdown",
                                                           content |-> res.content]]
            /\ UNCHANGED <<ledgerVars, recorded, vault, ret>>

\* an exception that leaves a handler without "try": an HTTPException is answered
\* as it is, any other exception as a bare 500
Uncaught(r, res, fault) ==
    [r EXCEPT !.pc = "exit", !.status_code = RouterStatus(res), !.detail_text = res.detail,
              !.fault = fault, !.faults = Append(@, fault)]

\* f["path"], f["name"], f["is_directory"]: only a mapping has them
IsVaultFile(f) == f[1] = "object"

\* VaultFile(path=f["path"], name=f["name"], is_directory=f["is_directory"], ...)
VaultFileOf(f) == [path |-> f[2].path, name |-> f[2].name, is_directory |-> f[2].is_directory]

\* routers/directory.py list_directory
ListStep ==
    \E fault \in RemoteFaults :
    \E answer \in (IF fault = "none" THEN ListAnswers ELSE {"data"}) :
        LET res == ClientListDirectory(req.path, vault, fault, answer)
        IN  /\ req.pc = "list_directory"
            /\ IF ~EnsureClient(req.client)
               THEN req' = [NotConnected(req) EXCEPT !.answer = answer] /\ UNCHANGED calls
               ELSE /\ calls' = Append(calls, res.call)
                    /\ req' = IF res.raised # "none"
                              THEN [Uncaught(req, res, fault) EXCEPT !.answer = answer]
                              ELSE IF \E i \in 1..Len(res.content.files) : ~IsVaultFile(res.content.files[i])
                              THEN [req EXCEPT !.pc = "exit", !.status_code = 500, !.fault = fault, !.faults = Append(@, fault),
                                               !.answer = answer]
                              ELSE [req EXCEPT !.pc = "exit", !.status_code = 200, !.fault = fault, !.faults = Append(@, fault),
                                               !.answer = answer,
                                               !.result = [path |-> res.content.path,
                                                           files |-> [i \in 1..Len(res.content.files) |->
                                                                         VaultFileOf(res.content.files[i])],
                                                           total |-> res.content.total]]
            /\ UNCHANGED <<ledgerVars, recorded, vault, ret>>

\* SearchResult: "path" and "score" are required
IsSearchResult(item) == "path" \in DOMAIN item /\ "score" \in DOMAIN item

\* routers/search.py simple_search
SimpleSearchStep ==
    \E fault \in RemoteFaults :
    \E answer \in (IF fault = "none" THEN SearchAnswers ELSE {"data"}) :
        LET res == ClientSimpleSearch(req.content, vault, fault, answer)
        IN  /\ req.pc = "simple_search"
            /\ IF ~EnsureClient(req.client)
               THEN req' = [NotConnected(req) EXCEPT !.answer = answer] /\ UNCHANGED calls
               ELSE /\ calls' = Append(calls, res.call)
                    /\ req' = IF res.raised # "none"
                              THEN [Caught(req, res, fault) EXCEPT !.answer = answer]
                              ELSE IF \E i \in 1..Len(res.content.results) : ~IsSearchResult(res.content.results[i])
                              THEN [req EXCEPT !.pc = "exit", !.status_code = 500, !.fault = fault, !.faults = Append(@, fault),
                                               !.answer = answer]
                              ELSE [req EXCEPT !.pc = "exit", !.status_code = 200, !.fault = fault, !.faults = Append(@, fault),
                                               !.answer = answer, !.result = res.content]
            /\ UNCHANGED <<ledgerVars, recorded, vault, ret>>

\* routers/search.py advanced_search
AdvancedSearchStep ==
    \E fault \in RemoteFaults :
    \E answer \in (IF fault = "none" THEN AdvancedAnswers ELSE {"data"}) :
        LET res == ClientAdvancedSearch(req.content, vault, fault, answer)
        IN  /\ req.pc = "advanced_search"
            /\ IF ~EnsureClient(req.client)
               THEN req' = [NotConnected(req) EXCEPT !.answer = answer] /\ UNCHANGED calls
               ELSE /\ calls' = Append(calls, res.call)
                    /\ req' = IF res.raised # "none"
                              THEN [Caught(req, res, fault) EXCEPT !.answer = answer]
                              ELSE [req EXCEPT !.pc = "exit", !.status_code = 200, !.fault = fault, !.faults = Append(@, fault),
                                               !.answer = answer, !.result = res.content]
            /\ UNCHANGED <<ledgerVars, recorded, vault, ret>>

\* the arguments of history.record_operation in the three handlers
RecordedOperation(r) ==
    IF r.handler = "create_file" THEN "create" ELSE IF r.handler = "patch_file" THEN "patch" ELSE "delete"

RecordedNewContent(r) ==
    IF r.handler = "create_file" THEN r.content
    ELSE IF r.handler = "patch_file" THEN r.new_content
    ELSE None

RecordedMetadata(r) ==
    IF r.handler = "create_file" THEN {<<"overwrite", r.overwrite>>}
    ELSE IF r.handler = "patch_file"
    THEN {<<"operation", r.operation>>, <<"target", "heading">>, <<"target_value", <<"h">> >>}
    ELSE {<<"deleted", TRUE>>}

\* "history.record_operation(...)" and "return result"
RecordStep ==
    \E outcome \in (IF max_entries = 0 THEN {"written"} ELSE SaveOutcomes) :
        /\ req.pc = "record"
        /\ RecordOperation(RecordedOperation(req), req.path, req.previous_content,
                           RecordedNewContent(req), RecordedMetadata(req), outcome)
        /\ req' = [req EXCEPT !.pc = "exit",
                              !.status_code = IF SaveHistoryRaises(outcome, max_entries) THEN 500 ELSE 200,
                              !.record_id = RecordOperationId(max_entries, uuidCount)]
        /\ UNCHANGED <<recorded, vault, calls, ret>>

\* the task of the request is cancelled while it waits for the remote to take its next call
Cancel ==
    /\ req.pc \in {"read_before", "create", "patch", "delete", "read_after",
                 "get_file", "list_directory", "simple_search", "advanced_search"}
    /\ req' = [req EXCEPT !.pc = "exit", !.status_code = 0, !.fault = "cancelled"]
    /\ UNCHANGED <<ledgerVars, recorded, vault, calls, ret>>

\* __aexit__, on the way out of "async with", whatever ended the block
Exit ==
    /\ req.pc = "exit"
    /\ req' = [req EXCEPT !.pc = "done", !.client = Close(req.client)]
    /\ ret' = Answer(req')
    /\ UNCHANGED <<ledgerVars, recorded, vault, calls>>

InitRequest ==
    /\ max_entries \in {0, MaxCap}
    /\ operations = <<>>
    /\ store = NoFile
    /\ uuidCount = 0
    /\ recorded = <<>>
    /\ vault \in InitialVaults
    /\ calls = <<>>
    /\ req = NoRequest
    /\ ret = [op |-> "init", before |-> <<>>, capacity_before |-> max_entries, persisted |-> FALSE]

NextRequest ==
    \/ Receive
    \/ ReadBefore
    \/ CreateStep
    \/ PatchStep
    \/ DeleteStep
    \/ ReadAfter
    \/ RecordStep
    \/ GetStep
    \/ ListStep
    \/ SimpleSearchStep
    \/ AdvancedSearchStep
    \/ Cancel
    \/ Exit

SpecRequest == InitRequest /\ [][NextRequest]_vars

----------------------------------------------------------------------------
(* Requests in flight together, on the one event loop of the process *)

Tasks == {1, 2}

\* the requests that race: a patch and a delete of the file "a "
RaceRequests ==
    {[handler |-> "patch_file", path |-> <<"a", " ">>, content |-> <<"b">>, operation |-> "append"],
     [handler |-> "delete_file", path |-> <<"a", " ">>, content |-> <<>>, operation |-> "none"]}

HoldsLoopNever(pc) == FALSE

HoldsLoopWholeRequest(pc) == pc \notin {"idle", "done"}

\* whether a coroutine at this position keeps the event loop: record_operation is a
\* plain function without an await, every other position of a handler is an await
HoldsLoop(pc) == pc \in {"record", "append", "save"}

\* task i is at position pc and the loop can run it: no other coroutine is between
\* two of its awaits
Ready(i, pc) == req.tasks[i].pc = pc /\ req.running \in {0, i}

\* task i ran up to the position of frame r
Resume(i, r) == [req EXCEPT !.tasks[i] = r, !.running = IF HoldsLoop(r.pc) THEN i ELSE 0]

\* a request arrives: the path check, get_history_manager(), __aenter__
RaceStart(i) ==
    \E request \in RaceRequests :
        LET r == Frame(request.handler, request.path, request.content, FALSE, request.operation)
        IN  /\ Ready(i, "idle")
            /\ Cardinality(Tasks) * Len(request.content) <= MaxContentLen
            /\ ~InvalidFilePath(request.path)
            /\ req' = [Resume(i, [r EXCEPT !.pc = FirstStep(request.handler, FALSE), !.client = Connect(r.client)])
                          EXCEPT !.served = @ + 1]
            /\ UNCHANGED <<ledgerVars, recorded, vault, calls, ret>>

\* "existing = await client.get_file(path, 'markdown')"
RaceReadBefore(i) ==
    LET t == req.tasks[i]
        res == ClientGetFile(t.path, vault, "none")
    IN  /\ Ready(i, "read_before")
        /\ EnsureClient(t.client)
        /\ calls' = Append(calls, [task |-> i, verb |-> res.call.verb])
        /\ req' = Resume(i, IF res.raised = "HTTPStatusError" THEN Caught(t, res, "none")
                            ELSE [t EXCEPT !.pc = IF t.handler = "patch_file" THEN "patch" ELSE "delete",
                                           !.previous_content = res.content])
        /\ UNCHANGED <<ledgerVars, recorded, vault, ret>>

\* "result = await client.patch_file(...)"
RacePatch(i) ==
    LET t == req.tasks[i]
        res == ClientPatchFile(t.path, t.operation, t.content, vault, "none", "applied")
    IN  /\ Ready(i, "patch")
        /\ EnsureClient(t.client)
        /\ calls' = Append(calls, [task |-> i, verb |-> res.call.verb])
        /\ vault' = res.vault
        /\ req' = Resume(i, Mutated(t, res, "none", "read_after"))
        /\ UNCHANGED <<ledgerVars, recorded, ret>>

\* "result = await client.delete_file(path=path)"
RaceDelete(i) ==
    LET t == req.tasks[i]
        res == ClientDeleteFile(t.path, vault, "none")
    IN  /\ Ready(i, "delete")
        /\ EnsureClient(t.client)
        /\ calls' = Append(calls, [task |-> i, verb |-> res.call.verb])
        /\ vault' = res.vault
        /\ req' = Resume(i, Mutated(t, res, "none", "record"))
        /\ UNCHANGED <<ledgerVars, recorded, ret>>

\* "new_file = await client.get_file(path, 'markdown')"
RaceReadAfter(i) ==
    LET t == req.tasks[i]
        res == ClientGetFile(t.path, vault, "none")
    IN  /\ Ready(i, "read_after")
        /\ EnsureClient(t.client)
        /\ calls' = Append(calls, [task |-> i, verb |-> res.call.verb])
        /\ req' = Resume(i, IF res.raised = "HTTPStatusError" THEN Caught(t, res, "none")
                            ELSE [t EXCEPT !.pc = "record", !.new_content = res.content])
        /\ UNCHANGED <<ledgerVars, recorded, vault, ret>>

\* record_operation, up to "record = {...}": the capacity check, uuid4(), the dict
RaceRecordBuild(i) ==
    LET t == req.tasks[i]
        record == NewRecord(RecordedOperation(t), t.path, t.previous_content,
                            RecordedNewContent(t), RecordedMetadata(t), uuidCount)
    IN  /\ Ready(i, "record")
        /\ IF max_entries = 0
           THEN /\ req' = Resume(i, [t EXCEPT !.pc = "exit", !.status_code = 200])
                /\ UNCHANGED <<uuidCount, recorded>>
           ELSE /\ req' = Resume(i, [t EXCEPT !.pc = "append", !.result = record,
                                              !.record_id = RecordOperationId(max_entries, uuidCount)])
                /\ uuidCount' = uuidCount + 1
                /\ recorded' = Append(recorded, record)
        /\ UNCHANGED <<max_entries, operations, store, vault, calls, ret>>

\* record_operation: "self._operations.append(record)"
RaceRecordAppend(i) ==
    LET t == req.tasks[i]
    IN  /\ Ready(i, "append")
        /\ operations' = DequeAppend(operations, t.result, max_entries)
        /\ req' = Resume(i, [t EXCEPT !.pc = "save"])
        /\ UNCHANGED <<max_entries, store, uuidCount, recorded, vault, calls, ret>>

\* record_operation: "self._save_history()" and "return operation_id"; the handler's "return result"
RaceRecordSave(i) ==
    \E outcome \in SaveOutcomes :
        LET t == req.tasks[i]
        IN  /\ Ready(i, "save")
            /\ store' = SaveHistory(operations, Now(uuidCount), outcome, store, max_entries)
            /\ req' = Resume(i, [t EXCEPT !.pc = "exit",
                                          !.status_code = IF SaveHistoryRaises(outcome, max_entries) THEN 500 ELSE 200])
            /\ ret' = [op |-> "record_operation", id |-> t.record_id, save |-> SaveResult(outcome),
                       lagging |-> Lagging(operations, store, max_entries), store_before |-> store.kind,
                       follows |-> ret.op]
            /\ UNCHANGED <<max_entries, operations, uuidCount, recorded, vault, calls>>

\* __aexit__: "await self.close()"
RaceExit(i) ==
    LET t == req.tasks[i]
    IN  /\ Ready(i, "exit")
        /\ req' = Resume(i, [t EXCEPT !.pc = "done", !.client = Close(t.client)])
        /\ UNCHANGED <<ledgerVars, recorded, vault, calls, ret>>

\* the server has started; the vault holds the empty file "a "
InitRace ==
    /\ max_entries \in 0..MaxCap
    /\ operations = <<>>
    /\ store = NoFile
    /\ uuidCount = 0
    /\ recorded = <<>>
    /\ vault = Put(EmptyVault, <<"a", " ">>, <<>>)
    /\ calls = <<>>
    /\ req = [served |-> 0, running |-> 0, tasks |-> [i \in Tasks |-> NoRequest]]
    /\ ret = [op |-> "init", before |-> <<>>, capacity_before |-> max_entries, persisted |-> FALSE]

NextRace ==
    \E i \in Tasks :
        \/ RaceStart(i)
        \/ RaceReadBefore(i)
        \/ RacePatch(i)
        \/ RaceDelete(i)
        \/ RaceReadAfter(i)
        \/ RaceRecordBuild(i)
        \/ RaceRecordAppend(i)
        \/ RaceRecordSave(i)
        \/ RaceExit(i)

SpecRace == InitRace /\ [][NextRace]_vars

----------------------------------------------------------------------------
(* Properties of the ledger *)

\* the n most recently added items of s, oldest first
MostRecent(s, n) == IF Len(s) <= n THEN s ELSE SubSeq(s, Len(s) - n + 1, Len(s))

\* C1: with capacity N > 0 the ledger holds exactly the min(n, N) most recently
\* recorded operations, the older ones evicted first in, first out, and get()
\* returns them most recent first.
C1_FifoWindow ==
    max_entries > 0 =>
        /\ operations = MostRecent(recorded, max_entries)
        /\ (ret.op = "get_history" /\ ~ret.limit.given) =>
               ret.value = Reversed(MostRecent(recorded, max_entries))

C1_Witness ==
    /\ max_entries = 2
    /\ Len(recorded) = 3
    /\ ret.op = "get_history"
    /\ ~ret.limit.given
    /\ ret.value = <<recorded[3], recorded[2]>>

\* C2: with capacity 0 every record returns the empty id, every get returns an
\* empty sequence, every getById returns nothing, nothing is held in memory and
\* no step creates the backing store file.
C2_DisabledLedger ==
    [][max_entries' = 0 =>
          /\ operations' = <<>>
          /\ (ret'.op = "record_operation" => ret'.id = EmptyId)
          /\ (ret'.op = "get_history" => ret'.value = <<>>)
          /\ (ret'.op = "get_operation" => ret'.value = <<>>)
          /\ (store.kind = "none" => store'.kind = "none")]_vars

C2_Witness ==
    /\ max_entries = 0
    /\ ret.op = "record_operation"
    /\ ret.id = EmptyId
    /\ store.kind = "none"

\* C3: with capacity > 0, get(L) for a provided limit L >= 0 (L = 0 included)
\* returns exactly the min(L, size) most recent records, most recent first, and
\* get() without a limit returns all of them most recent first.
C3_GetLimit ==
    (max_entries > 0 /\ ret.op = "get_history") =>
        ret.value = IF ret.limit.given
                    THEN Reversed(MostRecent(operations, Min(ret.limit.n, Len(operations))))
                    ELSE Reversed(operations)

\* C4: with capacity > 0, once clear() has returned, get() is empty, no id held
\* before is found, the backing store file does not exist, and a restart with
\* any capacity loads an empty ledger.
C4_ClearRemovesStore ==
    (max_entries > 0 /\ ret.op = "clear_history" /\ ~ret.raised) =>
        /\ GetHistory(NoLimit) = <<>>
        /\ \A id \in ret.held : GetOperation(id) = <<>>
        /\ store = NoFile
        /\ \A cap \in 0..MaxCap : LoadHistory(store, cap) = <<>>

C4_Witness ==
    /\ max_entries > 0
    /\ ret.op = "clear_history"
    /\ ~ret.raised
    /\ ret.held # {}
    /\ ret.had_file
    /\ store = NoFile

\* C5: a ledger of capacity N > 0 whose M <= N records are persisted is restored
\* by a restart with the same capacity to exactly those records, fields and
\* order unchanged.
C5_RoundTrip ==
    (ret.op = "init" /\ max_entries > 0 /\ ret.capacity_before = max_entries /\ ret.persisted) =>
        operations = ret.before

C5_Witness ==
    /\ ret.op = "init"
    /\ max_entries = 2
    /\ ret.capacity_before = 2
    /\ ret.persisted
    /\ Len(ret.before) = 2
    /\ operations = ret.before
    /\ \E i \in 1..2 : operations[i].previous_content = None

\* C6: a restart with capacity N > 0 over a store of M > N records loads the N
\* most recent of them in their order, and from then on the ledger never holds
\* more than N records and keeps evicting the oldest first.
C6_TruncatingLoad ==
    max_entries > 0 =>
        /\ Len(operations) <= max_entries
        /\ (ret.op = "init" /\ store.kind = "json" /\ Len(store.operations) > max_entries) =>
               operations = MostRecent(LoadList(store.operations), max_entries)
        /\ (ret.op = "record_operation" /\ Len(recorded) > max_entries) =>
               operations = SubSeq(recorded, Len(recorded) - max_entries + 1, Len(recorded))

C6_Witness ==
    /\ ret.op = "init"
    /\ max_entries = 1
    /\ store.kind = "json"
    /\ Len(store.operations) = 2
    /\ operations = <<LoadRecord(store.operations[2])>>

\* C18: in every ledger state, also after evictions, a clear and a restart that
\* reloads the store, the held records have pairwise distinct ids, and a record
\* held before and after a step, or reloaded from the store, has the same field
\* values as before.
C18_DistinctImmutable ==
    [][/\ \A i, j \in 1..Len(operations') : i # j => operations'[i].id # operations'[j].id
       /\ \A i \in 1..Len(operations), j \in 1..Len(operations') :
              operations[i].id = operations'[j].id => operations[i] = operations'[j]
       /\ store.kind = "json" =>
              \A i \in 1..Len(store.operations), j \in 1..Len(operations') :
                  LoadRecord(store.operations[i]).id = operations'[j].id =>
                      LoadRecord(store.operations[i]) = operations'[j]]_vars

C18_Witness ==
    /\ ret.op = "init"
    /\ max_entries = 2
    /\ uuidCount = 3
    /\ Len(operations) = 2
    /\ operations[1].id = Uuid(2)
    /\ operations[2].id = Uuid(3)
    /\ operations[1].operation # operations[2].operation

\* C24: after every record call whose save succeeded (capacity > 0), the store's
\* operations list is the in-memory sequence, same records oldest first, also after
\* an eviction and also when an earlier save had failed.
C24_WriteThrough ==
    (ret.op = "record_operation" /\ ret.save = "written") =>
        /\ store.kind = "json"
        /\ store.operations = DumpList(operations)
        /\ LoadList(store.operations) = operations

C24_Witness ==
    /\ ret.op = "record_operation"
    /\ ret.save = "written"
    /\ ret.lagging
    /\ max_entries > 0
    /\ Len(recorded) > Len(operations)
    /\ Len(operations) = max_entries
    /\ LoadList(store.operations) = operations

\* C25: persisting has no corruption window: when a record call found the store in
\* step with memory and the process is restarted right after it (same capacity > 0),
\* whatever happened to the write, the restart loads the full sequence as it was
\* before the record or the full sequence after it.
C25_NoCorruptionWindow ==
    [][(/\ ret.op = "record_operation"
        /\ ret.save # "skipped"
        /\ ~ret.lagging
        /\ ret'.op = "init"
        /\ max_entries' = max_entries)
       => operations' \in {operations,
                           MostRecent(SubSeq(recorded, 1, Len(recorded) - 1), max_entries)}]_vars

\* C30: over a store that exists but cannot be parsed, construction with capacity > 0
\* succeeds with an empty ledger and leaves the store as it is; reads leave it as it
\* is too; and the next record whose save succeeds replaces it with a store that
\* holds only what was recorded since.
C30_UnreadableStore ==
    [][store.kind = "corrupt" =>
           /\ (ret'.op = "init" /\ max_entries' > 0) => (operations' = <<>> /\ store' = store)
           /\ ret'.op \in {"get_history", "get_operation"} => store' = store
           /\ (operations = <<>> /\ ret'.op = "record_operation" /\ ret'.save = "written") =>
                  /\ Len(operations') = 1
                  /\ store'.kind = "json"
                  /\ LoadList(store'.operations) = operations']_vars

C30_Witness ==
    /\ ret.op = "record_operation"
    /\ ret.follows = "init"
    /\ ret.store_before = "corrupt"
    /\ ~ret.lagging
    /\ ret.save = "written"
    /\ max_entries > 0
    /\ uuidCount >= 2
    /\ Len(operations) = 1
    /\ operations[1].id = Uuid(uuidCount)
    /\ store.kind = "json"
    /\ LoadList(store.operations) = operations

----------------------------------------------------------------------------
(* Properties of the gateway and the request handlers *)

\* C7: when the store cannot be written during a record (capacity > 0), the
\* create request still answers 200, the record got a non-empty id that no
\* other held record has, and the record is held in memory: get() returns it
\* first and getById finds it.
C7_SaveFailureSwallowed ==
    (ret.op = "router_create_file" /\ max_entries > 0
        /\ ret.save \in {"open_failed", "write_failed"}) =>
        /\ ret.status_code = 200
        /\ ret.record_id # EmptyId
        /\ \A i \in 1..(Len(operations) - 1) : operations[i].id # ret.record_id
        /\ GetOperation(ret.record_id) # <<>>
        /\ GetHistory(NoLimit) # <<>>
        /\ GetHistory(NoLimit)[1].id = ret.record_id
        /\ GetHistory(NoLimit)[1].new_content = ret.content

C7_Witness ==
    /\ ret.op = "router_create_file"
    /\ max_entries > 0
    /\ ret.save = "write_failed"
    /\ ret.status_code = 200
    /\ store = Corrupt
    /\ Len(operations) = 1

\* C8: create with overwrite=false on a path that exists on the remote fails with
\* Conflict (409) and leaves the remote content unchanged; create with
\* overwrite=true succeeds and the content becomes exactly the given content
\* (the remote answering every call).
C8_CreateConflict ==
    (ret.op = "router_create_file" /\ ~InvalidFilePath(ret.path) /\ ret.fault_free) =>
        /\ (~ret.overwrite /\ ret.prior # None) =>
               (ret.status_code = 409 /\ ContentOf(vault, FileOf(ret.path)) = ret.prior)
        /\ ret.overwrite =>
               (ret.status_code = 200 /\ ContentOf(vault, FileOf(ret.path)) = ret.content)

\* C9: append on an existing file with non-empty content E is preceded by a read
\* of E and leaves E + content when E ends with a newline, E + newline + content
\* otherwise.
C9_AppendInsertsNewline ==
    (ret.op = "append_to_file" /\ ret.raised = "none" /\ ret.prior # None /\ ret.prior # <<>>) =>
        /\ \E i \in 1..Len(calls) : calls[i].verb = "GET"
        /\ ContentOf(vault, FileOf(ret.path)) =
               IF Last(ret.prior) = NL THEN ret.prior \o ret.content
               ELSE ret.prior \o <<NL>> \o ret.content

\* C10: append never fails NotFound; on a path that does not exist (the remote
\* answering) it succeeds and the path then exists with exactly the appended
\* content; an append that succeeds on a file with empty content leaves exactly
\* the appended content, with nothing in front of it.
C10_AppendCreates ==
    ret.op = "append_to_file" =>
        /\ ~(ret.raised = "HTTPException" /\ ret.status_code = 404)
        /\ (ret.fault = "none" /\ ret.prior = None) =>
               (ret.raised = "none" /\ ContentOf(vault, FileOf(ret.path)) = ret.content)
        /\ (ret.raised = "none" /\ ret.prior = <<>>) =>
               ContentOf(vault, FileOf(ret.path)) = ret.content

C10_Witness ==
    /\ ret.op = "append_to_file"
    /\ ret.fault = "none"
    /\ ret.prior = None
    /\ ret.raised = "none"
    /\ ret.content = <<"a">>
    /\ ContentOf(vault, FileOf(ret.path)) = <<"a">>

----------------------------------------------------------------------------
(* Properties of the requests *)

\* C11: when the remote answers the gateway's delete, the delete of a directory
\* fails with MethodNotAllowed (405) and the delete of a file that does not
\* exist fails with NotFound (404); the request is answered with that status,
\* the remote vault is left unchanged and the ledger gets no record.
C11_DeleteFails ==
    [][/\ (req.pc = "delete" /\ calls' # calls /\ req'.fault = "none") =>
              LET f == FileOf(req.path)
              IN  /\ AddressesDirectory(vault, f) =>
                         (req'.pc = "exit" /\ req'.status_code = 405)
                  /\ (~AddressesDirectory(vault, f) /\ f \notin DOMAIN vault) =>
                         (req'.pc = "exit" /\ req'.status_code = 404)
                  /\ req'.status_code \in {404, 405} =>
                         (vault' = vault /\ operations' = operations /\ store' = store)
       /\ (req.pc = "exit" /\ req.handler = "delete_file" /\ req.status_code \in {404, 405}) =>
              /\ ret'.status_code = req.status_code
              /\ vault' = vault /\ operations' = operations /\ store' = store]_vars

C11_Witness ==
    /\ req.pc = "done"
    /\ ret.op = "response"
    /\ ret.handler = "delete_file"
    /\ ret.path = <<"d">>
    /\ ret.status_code = 405
    /\ Len(calls) = 2
    /\ calls[2].verb = "DELETE"
    /\ <<"d", "/", "a">> \in DOMAIN vault
    /\ operations = <<>>

\* C12: when the remote answers that it has no native simple search, the search
\* request does not fail with NotImplemented (501): it is answered 200 with the
\* results of a scan of the vault for the same query, namely the files whose
\* content holds the query, after a listing and no more file reads than the
\* vault has files.
C12_SearchFallsBack ==
    (req.pc = "done" /\ req.handler = "simple_search" /\ req.fault = "none" /\ req.answer = "absent") =>
        /\ ret.status_code # 501
        /\ ret.status_code = 200
        /\ {ret.body.results[i].path : i \in 1..Len(ret.body.results)} =
               {f \in DOMAIN vault : Contains(vault[f], req.content)}
        /\ Len(calls) >= 2
        /\ Len(calls) - 2 <= Cardinality(DOMAIN vault)

\* C13: every operation of the gateway (read, create, append, patch, delete,
\* list, simple search, advanced search) answers a transport failure of its
\* remote call with BadGateway (502) and with no other error, after that one
\* remote call and no other.
C13_TransportIsBadGateway ==
    (ret.op \in {"get_file", "create_file", "append_to_file", "patch_file", "delete_file",
                 "list_directory", "simple_search", "advanced_search"}
        /\ ret.fault = "transport") =>
        /\ ret.raised = "HTTPException"
        /\ ret.status_code = 502
        /\ Len(calls) = 1

C13_Witness ==
    /\ ret.op = "advanced_search"
    /\ ret.fault = "transport"
    /\ ret.raised = "HTTPException"
    /\ ret.status_code = 502
    /\ calls = <<[verb |-> "POST", path |-> AdvancedSearchEndpoint, body |-> <<"a">>]>>

\* C14: for every file and directory operation of the gateway, a remote answer
\* 'not found' (404) gives NotFound, 'bad request' (400) gives BadRequest with
\* the remote's message, and 'method not allowed' (405) gives MethodNotAllowed:
\* none of the three statuses leaves the gateway as another error.
C14_UniformStatusMapping ==
    (ret.op \in {"get_file", "create_file", "append_to_file", "patch_file", "delete_file",
                 "list_directory"}) =>
        /\ ~(ret.raised = "HTTPStatusError" /\ ret.status_code \in {400, 404, 405})
        /\ (ret.raised = "HTTPException" /\ ret.status_code = 400) => ret.detail = RemoteMessage
        /\ (ret.fault = "none" /\ ret.op \in {"patch_file", "delete_file"}
                /\ EndsWithSlash(FileOf(ret.path))) =>
               (ret.raised = "HTTPException" /\ ret.status_code = 405)
        /\ (ret.fault = "none" /\ ret.op \in {"get_file", "patch_file", "delete_file"}
                /\ ~EndsWithSlash(FileOf(ret.path)) /\ ret.prior = None) =>
               (ret.raised = "HTTPException" /\ ret.status_code = 404)
        /\ (ret.fault = "none" /\ ret.op = "list_directory"
                /\ ~DirectoryExists(vault, NormalizeDirectoryPath(ret.path))) =>
               (ret.raised = "HTTPException" /\ ret.status_code = 404)

\* C15: a request whose remote call was answered with a status the gateway does
\* not recognize (here 503) is answered as an Internal error (500) whose detail
\* carries the remote's status code, never as a success or another error.
C15_UnrecognizedStatusIsInternal ==
    (req.pc = "done" /\ req.fault = "status") =>
        /\ ret.status_code = 500
        /\ ret.detail_status = RemoteUnavailable(vault).status

\* C16: when the remote answers the listing of a directory that exists, the
\* list request is answered 200 with exactly one entry per item of the remote's
\* listing, is_directory true exactly for the items that end with the separator,
\* and total the number of entries; when the directory does not exist it is
\* answered NotFound (404).
C16_ListEntries ==
    (req.pc = "done" /\ req.handler = "list_directory" /\ req.fault = "none" /\ req.answer = "data") =>
        LET d == NormalizeDirectoryPath(req.path)
        IN  IF DirectoryExists(vault, d)
            THEN /\ ret.status_code = 200
                 /\ Len(ret.body.files) = Cardinality(Children(vault, d))
                 /\ {<<ret.body.files[i].path, ret.body.files[i].is_directory>> :
                        i \in 1..Len(ret.body.files)} =
                    {<<c, EndsWithSlash(c)>> : c \in Children(vault, d)}
                 /\ ret.body.total = Len(ret.body.files)
            ELSE ret.status_code = 404

\* C17: in every request the session is acquired before the first remote call,
\* a remote call is issued only while the session is held, and the session is
\* released when the request ends, whether it succeeded, failed with a gateway
\* error or with an unexpected exception, or was cancelled: a request that is
\* over holds no session.
C17_SessionScoped ==
    [][/\ Len(calls') > Len(calls) => (req.client = "AsyncClient" /\ req'.client = "AsyncClient")
       /\ (req.client = "None" /\ req'.client = "AsyncClient") => calls' = <<>>
       /\ req.pc = "exit" => req'.pc = "done"
       /\ req'.pc \in {"idle", "done"} => req'.client = "None"
       /\ req'.pc \notin {"idle", "done"} => req'.client = "AsyncClient"]_vars

C17_Witness ==
    /\ req.pc = "done"
    /\ req.handler = "patch_file"
    /\ req.client = "None"
    /\ req.fault = "status"
    /\ ret.status_code = 500
    /\ Len(calls) = 2
    /\ calls[2].verb = "PATCH"

\* C19: a create, patch or delete request that succeeds has made, in this order,
\* a read of the path (the previous snapshot), the remote mutation and a second
\* read of the path (the new snapshot), and then one ledger record that carries
\* the two snapshots read.
C19_SnapshotOrder ==
    (req.pc = "done" /\ req.handler \in {"create_file", "patch_file", "delete_file"}
        /\ ret.status_code = 200) =>
        /\ Len(calls) = 3
        /\ calls[1].verb = "GET"
        /\ calls[2].verb \in {"PUT", "POST", "PATCH", "DELETE"}
        /\ calls[3].verb = "GET"
        /\ max_entries > 0 =>
               /\ GetOperation(req.record_id) # <<>>
               /\ GetOperation(req.record_id)[1].previous_content = req.previous_content
               /\ GetOperation(req.record_id)[1].new_content = req.new_content

\* the verbs of the remote calls a request made, in order
Verbs(cs) == [i \in 1..Len(cs) |-> cs[i].verb]

\* the remote calls of a successful mutating request
SnapshotCalls(r) ==
    IF r.handler = "patch_file" THEN <<"GET", "PATCH", "GET">>
    ELSE IF r.handler = "delete_file" THEN <<"GET", "DELETE">>
    ELSE IF r.overwrite THEN <<"GET", "PUT">>
    ELSE <<"POST">>

\* C19 (amended): a patch request that succeeds has made, in this order, a read
\* of the path, the remote mutation and a second read, and then one ledger record
\* with the two contents read; a delete request that succeeds has made the read
\* and the mutation but no second read, and its record has no new content; a
\* create request that succeeds has made the read only when overwrite is set and
\* no second read, and its record has the request's content as new content (and
\* no previous content when it made no read). In all three the record is made
\* after the last remote call.
C19_SnapshotSteps ==
    [][/\ operations' # operations =>
              (req.pc = "record" /\ calls' = calls /\ Verbs(calls) = SnapshotCalls(req))
       /\ (req'.pc = "done" /\ req'.handler \in {"create_file", "patch_file", "delete_file"}
              /\ req'.status_code = 200) =>
              /\ Verbs(calls') = SnapshotCalls(req')
              /\ max_entries > 0 =>
                     /\ GetOperation(req'.record_id) # <<>>
                     /\ GetOperation(req'.record_id)[1].previous_content = req'.previous_content
                     /\ GetOperation(req'.record_id)[1].new_content =
                            IF req'.handler = "patch_file" THEN req'.new_content
                            ELSE IF req'.handler = "create_file" THEN req'.content
                            ELSE None]_vars

C19_Witness ==
    /\ req.pc = "done"
    /\ req.handler = "patch_file"
    /\ req.operation = "append"
    /\ ret.status_code = 200
    /\ Verbs(calls) = <<"GET", "PATCH", "GET">>
    /\ Len(operations) = 1
    /\ operations[1].previous_content = <<"a">>
    /\ operations[1].new_content = <<"a", "b">>

\* C20: when every remote call of a request was answered, the record of a create,
\* patch or delete request that succeeded is a true snapshot: previous_content
\* is the content the path had on the remote right before the mutation (None
\* exactly when the path did not exist) and new_content the content it had right
\* after it (None after a delete).
C20_TrueSnapshots ==
    (req.pc = "done" /\ req.handler \in {"create_file", "patch_file", "delete_file"}
        /\ ret.status_code = 200 /\ max_entries > 0
        /\ \A i \in 1..Len(req.faults) : req.faults[i] = "none") =>
        /\ GetOperation(req.record_id) # <<>>
        /\ GetOperation(req.record_id)[1].previous_content = req.before
        /\ GetOperation(req.record_id)[1].new_content = req.after

\* C28: when the remote mutation of a create, patch or delete request fails, whatever
\* the error, the request goes to its exit with that error and from there to its
\* caller, and no step of it changes the ledger: no record, no eviction, no write
\* of the store.
C28_FailedMutationLeavesLedger ==
    [][/\ (req.pc \in {"create", "patch", "delete"} /\ req'.status_code >= 400) =>
              (UNCHANGED ledgerVars /\ req'.pc = "exit")
       /\ (req.pc = "exit" /\ req.status_code >= 400) =>
              /\ UNCHANGED ledgerVars
              /\ req'.pc = "done"
              /\ ret'.op = "response"
              /\ ret'.status_code = req.status_code]_vars

C28_Witness ==
    /\ req.pc = "done"
    /\ req.handler = "patch_file"
    /\ calls # <<>>
    /\ calls[Len(calls)].verb = "PATCH"
    /\ req.fault = "transport"
    /\ ret.op = "response"
    /\ ret.status_code = 502
    /\ max_entries > 0
    /\ operations = <<>>
    /\ store = NoFile
    /\ uuidCount = 0

\* whether the read of the snapshot before the mutation fails
SnapshotReadFails(r, fault) == fault # "none" \/ ContentOf(vault, FileOf(r.path)) = None

\* C29: in create with overwrite, patch and delete, a failure of the read before the
\* mutation, of whatever kind, does not end the request: the handler goes on to its
\* mutation with previous_content absent, as when the path does not exist.
C29_SnapshotReadFailureSwallowed ==
    [][(req.pc = "read_before" /\ req'.pc # "read_before" /\ req'.fault # "cancelled") =>
           /\ req'.pc \in {"create", "patch", "delete"}
           /\ SnapshotReadFails(req, req'.fault) => req'.previous_content = None]_vars

----------------------------------------------------------------------------
(* Properties of the path functions *)

\* the path without one leading separator
StripOne(path) == IF path # <<>> /\ Head(path) = "/" THEN Tail(path) ELSE path

\* C21: encode removes exactly one leading separator when there is one (a path that
\* begins with two separators keeps the second), leaves no reserved character
\* unescaped, and keeps every interior separator: its result decodes to the path
\* without its first separator.
C21_Encode ==
    ret.op = "_encode_path" =>
        /\ Unquote(ret.value) = StripOne(ret.path)
        /\ \A i \in 1..Len(ret.value) : ret.value[i] \notin {" ", NL}
        /\ \A i \in 1..Len(ret.value) :
               ret.value[i] = "%" => \E pc \in PercentCodes : IsPrefix(pc[2], SubSeq(ret.value, i, Len(ret.value)))

\* C22: normalizeDirectory gives the root address for "" and "/", and for every other
\* path an address that ends with exactly one separator.
C22_NormalizeDirectory ==
    ret.op = "_normalize_directory_path" =>
        LET address == <<"/", "v", "a", "u", "l", "t", "/">> \o ret.value
        IN  IF ret.path \in {<<>>, <<"/">>} THEN ret.value = <<>>
            ELSE /\ Last(address) = "/"
                 /\ address[Len(address) - 1] # "/"

\* the remote calls that address a vault path
PathCalls == {"get_file", "create_file", "append_to_file", "patch_file", "delete_file", "list_directory"}

\* C23: every remote call that addresses a vault path transmits encode applied exactly
\* once to the caller's path (for a listing, to the normalised directory path), and
\* encoding a path that needs an escape a second time gives a different string.
C23_EncodedOnce ==
    (ret.op \in PathCalls /\ calls # <<>>) =>
        /\ calls[1].path = IF ret.op = "list_directory"
                           THEN EncodePath(NormalizeDirectoryPath(ret.path))
                           ELSE EncodePath(ret.path)
        /\ EncodePath(ret.path) # Lstrip(ret.path)
               => EncodePath(EncodePath(ret.path)) # EncodePath(ret.path)

----------------------------------------------------------------------------
(* Properties of requests in flight together *)

\* the tasks that are inside a record step
Recording == {i \in Tasks : req.tasks[i].pc \in {"record", "append", "save"}}

\* the mutations the remote applied, in its order
Mutations == SelectSeq(calls, LAMBDA c : c.verb \in {"PATCH", "DELETE"})

\* C26: the record steps of requests that run together never interleave: at most one
\* request is inside a record step; whenever none is, memory holds the records in the
\* order their record steps ran (the most recent ones, up to capacity); and once the
\* requests are over and the last save succeeded, the store holds that same sequence.
C26_RecordsExclusive ==
    /\ Cardinality(Recording) <= 1
    /\ (Recording = {} /\ max_entries > 0) =>
           /\ operations = MostRecent(recorded, max_entries)
           /\ Cardinality(IdsOf(operations)) = Len(operations)
    /\ (/\ \A i \in Tasks : req.tasks[i].pc = "done"
        /\ ret.op = "record_operation"
        /\ ret.save = "written") =>
           /\ store.kind = "json"
           /\ LoadList(store.operations) = operations

C26_Witness ==
    /\ \A i \in Tasks : req.tasks[i].pc = "done" /\ req.tasks[i].record_id # EmptyId
    /\ max_entries = MaxCap
    /\ Len(operations) = 2
    /\ operations = recorded
    /\ Len(calls) >= 4
    /\ calls[1].task # calls[2].task
    /\ calls[Len(calls)].task # calls[Len(calls) - 1].task
    /\ ret.save = "written"
    /\ LoadList(store.operations) = operations

\* C27: nothing serializes the requests on one path: whenever no record step is
\* running, every request that has not finished can take its next step, whatever
\* the other request on the same path is in the middle of. (The witness is the race
\* this allows: a record whose snapshot is not the content its own mutation met, in
\* a ledger whose order is not the order in which the remote applied the mutations.)
C27_NoPathSerialization ==
    \A i \in Tasks :
        (Recording = {} /\ req.tasks[i].pc # "done") =>
            /\ Ready(i, req.tasks[i].pc)
            /\ req.tasks[i].pc # "idle" => EnsureClient(req.tasks[i].client)

C27_Witness ==
    /\ \A i \in Tasks : req.tasks[i].pc = "done" /\ req.tasks[i].record_id # EmptyId
    /\ \A i, j \in Tasks : req.tasks[i].path = req.tasks[j].path
    /\ Len(operations) = 2
    /\ Len(Mutations) = 2
    /\ \E i \in Tasks :
           /\ operations[1].id = req.tasks[i].record_id
           /\ Mutations[1].task # i
    /\ \E i \in Tasks :
           \/ req.tasks[i].previous_content # req.tasks[i].before
           \/ (req.tasks[i].handler = "patch_file" /\ req.tasks[i].new_content # req.tasks[i].after)
    /\ \E k \in 1..2 : \E i \in Tasks :
           /\ operations[k].id = req.tasks[i].record_id
           /\ operations[k].previous_content # req.tasks[i].before

====
